---------------------------- MODULE Spec2Model ----------------------------
(***************************************************************************)
(* A model of backend/main.py: the three FastAPI handlers /explain,        *)
(* /generate and /fix, the keyword classifier detect_error_type, the       *)
(* prompt builder generate_error_specific_prompt and the post-processing   *)
(* of the completion's reply (regex extraction, json.loads, validation of  *)
(* every element against Edit).                                            *)
(*                                                                         *)
(* Text the code inspects character by character (the language field, the  *)
(* error message) is a sequence of one-character strings.  The reply of    *)
(* the completion is a sequence of JSON tokens: "[", "]", ",", a run of    *)
(* non-JSON text "x", and one token per JSON object or number (JsonValue). *)
(* Text the code never inspects (snippet, instructions) is a plain string. *)
(***************************************************************************)
EXTENDS Integers, Sequences, FiniteSets, TLC

VARIABLES
    req,        \* req[i]: the validated request body of request i
    pc,         \* pc[i]: "idle", "received", "calling", "done"
    calls,      \* calls[i]: client.chat.completions.create invocations of i
    prompt,     \* prompt[i]: the system message handed to the completion
    upstream,   \* upstream[i]: what the completion call of i came back with
    resp,       \* resp[i]: the HTTP response of request i
    log,        \* number of records written by logging.exception
    client      \* the module-level OpenAI client

vars == <<req, pc, calls, prompt, upstream, resp, log, client>>

---------------------------------------------------------------------------
(* Bounds of the model.                                                    *)

NumReq == 2         \* requests in flight at once
MaxWords == 3       \* words of an error message
MaxEdits == 2       \* elements of a JSON array in a reply
MaxPad == 1         \* words of text before and after the array in a reply
MaxRaw == 3         \* tokens of an unstructured reply

Reqs == 1..NumReq

---------------------------------------------------------------------------
(* Strings as sequences of characters.                                     *)

UpperAlpha == <<"A", "B", "C", "D", "E", "F", "G", "H", "I", "J", "K", "L", "M",
                "N", "O", "P", "Q", "R", "S", "T", "U", "V", "W", "X", "Y", "Z">>
LowerAlpha == <<"a", "b", "c", "d", "e", "f", "g", "h", "i", "j", "k", "l", "m",
                "n", "o", "p", "q", "r", "s", "t", "u", "v", "w", "x", "y", "z">>

\* str.lower() on one character
LowerChar(c) ==
    IF \E k \in 1..26 : UpperAlpha[k] = c
    THEN LowerAlpha[CHOOSE k \in 1..26 : UpperAlpha[k] = c]
    ELSE c

\* str.lower()
Lower(s) == [k \in 1..Len(s) |-> LowerChar(s[k])]

\* the Python operator `needle in hay` on strings
Contains(needle, hay) ==
    \E k \in 1..(Len(hay) - Len(needle) + 1) :
        SubSeq(hay, k, k + Len(needle) - 1) = needle

kw_python == <<"p", "y", "t", "h", "o", "n">>
kw_indentationerror == <<"i", "n", "d", "e", "n", "t", "a", "t", "i", "o", "n", "e", "r", "r", "o", "r">>
kw_syntaxerror == <<"s", "y", "n", "t", "a", "x", "e", "r", "r", "o", "r">>
kw_colon == <<"c", "o", "l", "o", "n">>
kw_never_closed == <<"n", "e", "v", "e", "r", " ", "c", "l", "o", "s", "e", "d">>
kw_quote == <<"q", "u", "o", "t", "e">>
kw_string == <<"s", "t", "r", "i", "n", "g">>
kw_nameerror == <<"n", "a", "m", "e", "e", "r", "r", "o", "r">>

---------------------------------------------------------------------------
(* detect_error_type and generate_error_specific_prompt.                   *)

\* The chain of lines 153-170 with the bracket check moved before the
\* parenthesis check.
first_match_reordered(error_msg) ==
    LET syn == Contains(kw_syntaxerror, error_msg)
    IN  IF Contains(kw_indentationerror, error_msg) THEN "indentation"
        ELSE IF syn /\ (Contains(<<":">>, error_msg) \/ Contains(kw_colon, error_msg))
            THEN "missing_colon"
        ELSE IF syn /\ (Contains(<<"[">>, error_msg) \/ Contains(<<"]">>, error_msg))
            THEN "missing_bracket"
        ELSE IF syn /\ (Contains(<<"(">>, error_msg) \/ Contains(<<")">>, error_msg)
                        \/ Contains(kw_never_closed, error_msg))
            THEN "missing_parenthesis"
        ELSE IF syn /\ (Contains(<<"{">>, error_msg) \/ Contains(<<"}">>, error_msg))
            THEN "missing_brace"
        ELSE IF syn /\ (Contains(kw_quote, error_msg) \/ Contains(kw_string, error_msg))
            THEN "quote_error"
        ELSE IF Contains(kw_nameerror, error_msg) THEN "undefined_variable"
        ELSE IF syn /\ Contains(<<",">>, error_msg) THEN "missing_comma"
        ELSE "general_syntax"

\* The if/elif chain of detect_error_type over the lowercased message.
first_match(error_msg) ==
    LET syn == Contains(kw_syntaxerror, error_msg)
    IN  IF Contains(kw_indentationerror, error_msg) THEN "indentation"
        ELSE IF syn /\ (Contains(<<":">>, error_msg) \/ Contains(kw_colon, error_msg))
            THEN "missing_colon"
        ELSE IF syn /\ (Contains(<<"(">>, error_msg) \/ Contains(<<")">>, error_msg)
                        \/ Contains(kw_never_closed, error_msg))
            THEN "missing_parenthesis"
        ELSE IF syn /\ (Contains(<<"[">>, error_msg) \/ Contains(<<"]">>, error_msg))
            THEN "missing_bracket"
        ELSE IF syn /\ (Contains(<<"{">>, error_msg) \/ Contains(<<"}">>, error_msg))
            THEN "missing_brace"
        ELSE IF syn /\ (Contains(kw_quote, error_msg) \/ Contains(kw_string, error_msg))
            THEN "quote_error"
        ELSE IF Contains(kw_nameerror, error_msg) THEN "undefined_variable"
        ELSE IF syn /\ Contains(<<",">>, error_msg) THEN "missing_comma"
        ELSE "general_syntax"

\* The chain applied to the message as given, without lowercasing it.
detect_error_type_no_lower(error_message) == first_match(error_message)

detect_error_type(error_message) == first_match(Lower(error_message))

\* The first line of the template generate_error_specific_prompt returns.
TemplateHead(error_type) ==
    IF error_type = "indentation"
        THEN "You are a Python indentation expert. Fix this IndentationError."
    ELSE IF error_type = "missing_colon"
        THEN "You are a Python syntax expert. Fix this missing colon error."
    ELSE IF error_type = "missing_parenthesis"
        THEN "You are a Python syntax expert. Fix this missing parenthesis error."
    ELSE IF error_type = "missing_bracket"
        THEN "You are a Python syntax expert. Fix this missing bracket error."
    ELSE IF error_type = "missing_brace"
        THEN "You are a Python syntax expert. Fix this missing brace error."
    ELSE IF error_type = "quote_error"
        THEN "You are a Python syntax expert. Fix this quote/string error."
    ELSE IF error_type = "undefined_variable"
        THEN "You are a Python variable expert. Fix this undefined variable error."
    ELSE IF error_type = "missing_comma"
        THEN "You are a Python syntax expert. Fix this missing comma error."
    ELSE "You are a Python syntax expert. Fix this syntax error."

\* The template's head followed by base_format, which repeats the request's
\* positions, error and snippet.
generate_error_specific_prompt(error_type, r) ==
    [head |-> TemplateHead(error_type),
     start_line |-> r.start_line, start_char |-> r.start_char,
     end_line |-> r.end_line, end_char |-> r.end_char,
     error |-> r.error, snippet |-> r.snippet]

\* SYSTEM_PROMPT.format(language=req.language, snippet=req.snippet)
SYSTEM_PROMPT(language, snippet) ==
    [head |-> "You are an expert {language} tutor.",
     language |-> language, snippet |-> snippet]

\* The f-string prompt of generate_code
GeneratePrompt(instructions) ==
    [head |-> "You are an expert Python developer.", instructions |-> instructions]

---------------------------------------------------------------------------
(* The reply of the completion: JSON tokens.                               *)

\* The JSON objects and numbers a reply is made of, one token each.
JsonValue(t) ==
    CASE t = "E" -> [type |-> "object",
                     fields |-> [start_line |-> [t |-> "int", v |-> 0],
                                 start_char |-> [t |-> "int", v |-> 0],
                                 end_line |-> [t |-> "int", v |-> 0],
                                 end_char |-> [t |-> "int", v |-> 4],
                                 replacement |-> [t |-> "str", v |-> "    return x"]]]
      [] t = "N" -> [type |-> "object",
                     fields |-> [start_line |-> [t |-> "int", v |-> -1],
                                 start_char |-> [t |-> "int", v |-> 0],
                                 end_line |-> [t |-> "int", v |-> 1],
                                 end_char |-> [t |-> "int", v |-> 0],
                                 replacement |-> [t |-> "str", v |-> "if x > 5:"]]]
      [] t = "C" -> [type |-> "object",
                     fields |-> [start_line |-> [t |-> "str", v |-> "2"],
                                 start_char |-> [t |-> "int", v |-> 0],
                                 end_line |-> [t |-> "int", v |-> 2],
                                 end_char |-> [t |-> "int", v |-> 9],
                                 replacement |-> [t |-> "str", v |-> "print(x)"]]]
      [] t = "M" -> [type |-> "object",
                     fields |-> [start_line |-> [t |-> "int", v |-> 0],
                                 start_char |-> [t |-> "int", v |-> 0],
                                 end_line |-> [t |-> "int", v |-> 0],
                                 end_char |-> [t |-> "int", v |-> 4]]]
      [] t = "O" -> [type |-> "object", fields |-> <<>>]
      [] t = "Z" -> [type |-> "number", fields |-> <<>>]

\* The keys of the JSON object t.
JsonKeys(t) ==
    CASE t \in {"E", "N", "C"} ->
            {"start_line", "start_char", "end_line", "end_char", "replacement"}
      [] t = "M" -> {"start_line", "start_char", "end_line", "end_char"}
      [] OTHER -> {}

ObjectTokens == {"E", "N", "C", "M", "O"}
ValueTokens == ObjectTokens \cup {"Z"}
Tokens == ValueTokens \cup {"[", "]", ",", "x"}

Digits == <<"0", "1", "2", "3", "4", "5", "6", "7", "8", "9">>

\* pydantic's validation of an int field: an int, or a string of digits,
\* which it converts.
IntFieldOk(val) ==
    \/ val.t = "int"
    \/ val.t = "str" /\ \E d \in 1..10 : Digits[d] = val.v

IntField(val) ==
    IF val.t = "int" THEN val.v
    ELSE (CHOOSE d \in 1..10 : Digits[d] = val.v) - 1

IntFields == {"start_line", "start_char", "end_line", "end_char"}

\* Edit(**e) raises no ValidationError: e is a mapping e here.
EditValid(e) ==
    LET f == JsonValue(e).fields
    IN  /\ \A n \in IntFields : n \in JsonKeys(e) /\ IntFieldOk(f[n])
        /\ "replacement" \in JsonKeys(e)
        /\ f["replacement"].t = "str"

\* The Edit that Edit(**e) builds.
Edit(e) ==
    LET f == JsonValue(e).fields
    IN  [start_line |-> IntField(f["start_line"]),
         start_char |-> IntField(f["start_char"]),
         end_line |-> IntField(f["end_line"]),
         end_char |-> IntField(f["end_char"]),
         replacement |-> f["replacement"].v]

\* An element Edit(**e) accepts as a mapping ("A" is a nested array).
IsMapping(e) == e \in ObjectTokens

First(raw, t) == CHOOSE k \in 1..Len(raw) :
                    raw[k] = t /\ \A j \in 1..(k - 1) : raw[j] # t
Last(raw, t) == CHOOSE k \in 1..Len(raw) :
                    raw[k] = t /\ \A j \in (k + 1)..Len(raw) : raw[j] # t
Has(raw, t) == \E k \in 1..Len(raw) : raw[k] = t

\* The payload when the reply is handed to json.loads as it is.
extract_payload_none(raw) == raw

\* m = re.search(r"\[.*\]", raw, re.DOTALL); payload = m.group(0) if m else raw
extract_payload(raw) ==
    IF Has(raw, "[") /\ Has(raw, "]") /\ First(raw, "[") < Last(raw, "]")
    THEN SubSeq(raw, First(raw, "["), Last(raw, "]"))
    ELSE raw

RECURSIVE ValueEnd(_, _)
RECURSIVE ElementsEnd(_, _)

\* The index after the JSON value that starts at s[k]; 0 when there is none.
ValueEnd(s, k) ==
    IF k > Len(s) THEN 0
    ELSE IF s[k] \in ValueTokens THEN k + 1
    ELSE IF s[k] = "["
        THEN IF k + 1 <= Len(s) /\ s[k + 1] = "]" THEN k + 2
             ELSE ElementsEnd(s, k + 1)
    ELSE 0

\* The index after the "]" closing the array whose next element starts at s[k].
ElementsEnd(s, k) ==
    LET e == ValueEnd(s, k)
    IN  IF e = 0 \/ e > Len(s) THEN 0
        ELSE IF s[e] = "," THEN ElementsEnd(s, e + 1)
        ELSE IF s[e] = "]" THEN e + 1
        ELSE 0

RECURSIVE ItemsFrom(_, _)
\* The elements of a well-formed array s, from the one that starts at s[k].
ItemsFrom(s, k) ==
    LET e == ValueEnd(s, k)
        item == IF s[k] = "[" THEN "A" ELSE s[k]
    IN  IF s[e] = "]" THEN <<item>> ELSE <<item>> \o ItemsFrom(s, e + 1)

\* json.loads(payload): a JSONDecodeError, or the value.
json_loads(payload) ==
    IF payload = <<>> \/ ValueEnd(payload, 1) # Len(payload) + 1
        THEN [ok |-> FALSE, type |-> "error", items |-> <<>>, keys |-> {}]
    ELSE IF payload[1] = "["
        THEN [ok |-> TRUE, type |-> "array", keys |-> {},
              items |-> IF Len(payload) = 2 THEN <<>> ELSE ItemsFrom(payload, 2)]
    ELSE [ok |-> TRUE, type |-> JsonValue(payload[1]).type, items |-> <<>>,
          keys |-> JsonKeys(payload[1])]

\* validated: List[Edit] = [] as one list all requests append to.
new_validated_shared ==
    IF \E j \in Reqs : resp[j].status = 200 /\ req[j].kind = "fix"
    THEN resp[CHOOSE j \in Reqs : resp[j].status = 200 /\ req[j].kind = "fix"].edits
    ELSE <<>>

\* validated: List[Edit] = []
new_validated == <<>>

RECURSIVE validate_loop_skip(_, _)
\* The loop when an element that fails validation is passed over.
validate_loop_skip(items, validated) ==
    IF items = <<>> THEN [exc |-> "none", validated |-> validated]
    ELSE IF ~IsMapping(Head(items)) THEN [exc |-> "TypeError", validated |-> <<>>]
    ELSE IF EditValid(Head(items))
        THEN validate_loop_skip(Tail(items), Append(validated, Edit(Head(items))))
    ELSE validate_loop_skip(Tail(items), validated)

RECURSIVE validate_loop(_, _)
\* for e in edits_list: validated.append(Edit(**e)), or the exception raised
validate_loop(items, validated) ==
    IF items = <<>> THEN [exc |-> "none", validated |-> validated]
    ELSE IF ~IsMapping(Head(items)) THEN [exc |-> "TypeError", validated |-> <<>>]
    ELSE IF EditValid(Head(items))
        THEN validate_loop(Tail(items), Append(validated, Edit(Head(items))))
    ELSE [exc |-> "ValidationError", validated |-> <<>>]

RECURSIVE dedup(_)
dedup(s) ==
    IF s = <<>> THEN <<>>
    ELSE LET d == dedup(SubSeq(s, 1, Len(s) - 1))
         IN  IF \E k \in 1..Len(d) : d[k] = s[Len(s)] THEN d
             ELSE Append(d, s[Len(s)])

\* A response that drops repeated edits.
FixResponseDedup(validated) == [status |-> 200, edits |-> dedup(validated)]

\* FixResponse(edits=validated)
FixResponse(validated) == [status |-> 200, edits |-> validated]

\* raise HTTPException(status_code=..., detail=...)
HTTPException(status_code, detail) == [status |-> status_code, detail |-> detail]

\* The body of the try block of fix_code after the completion returned raw
\* (lines 125-141) with its except clauses (143-147): the response.
fix_postprocess(raw) ==
    LET edits_list == json_loads(extract_payload(raw))
    IN  IF ~edits_list.ok THEN HTTPException(500, "LLM error: JSONDecodeError")
        ELSE IF edits_list.type = "number"
            THEN HTTPException(500, "LLM error: TypeError")
        ELSE IF edits_list.type = "object"
            THEN IF edits_list.keys = {} THEN FixResponse(new_validated)
                 ELSE HTTPException(500, "LLM error: TypeError")
        ELSE LET r == validate_loop(edits_list.items, new_validated)
             IN  IF r.exc = "none" THEN FixResponse(r.validated)
                 ELSE IF r.exc = "ValidationError"
                    THEN HTTPException(500, "LLM error: 500: AI returned malformed edit data")
                 ELSE HTTPException(500, "LLM error: TypeError")

---------------------------------------------------------------------------
(* The handlers.                                                           *)

\* The language check compared without lowercasing.
supported_exact(language) == language = kw_python

\* not (req.language.lower() != "python")
supported(language) == Lower(language) = kw_python

RECURSIVE lstrip(_)
lstrip(s) == IF s # <<>> /\ Head(s) = " " THEN lstrip(Tail(s)) ELSE s

RECURSIVE rstrip(_)
rstrip(s) ==
    IF s # <<>> /\ s[Len(s)] = " " THEN rstrip(SubSeq(s, 1, Len(s) - 1)) ELSE s

\* str.strip()
strip(s) == rstrip(lstrip(s))

NoRequest == [kind |-> "none"]
NoPrompt == [head |-> ""]
NoOutcome == [sig |-> "pending", content |-> <<>>]
NoResponse == [status |-> 0]

\* What client.chat.completions.create comes back with: it raises
\* RateLimitError ("quota") or another exception ("error"), or returns a
\* message whose content is None ("none") or a text ("ok").
Outcomes(contents) ==
    {[sig |-> g, content |-> <<>>] : g \in {"quota", "error", "none"}}
        \cup {[sig |-> "ok", content |-> c] : c \in contents}

\* explain_snippet, lines 75-79
explain_response(out) ==
    IF out.sig = "ok" THEN [status |-> 200, explanation |-> strip(out.content)]
    ELSE IF out.sig = "quota" THEN HTTPException(500, "LLM error: RateLimitError")
    ELSE IF out.sig = "none" THEN HTTPException(500, "LLM error: AttributeError")
    ELSE HTTPException(500, "LLM error: APIError")

\* generate_code, lines 100-104
generate_response(out) ==
    IF out.sig = "ok" THEN [status |-> 200, code |-> strip(out.content)]
    ELSE IF out.sig = "quota" THEN HTTPException(500, "LLM error: RateLimitError")
    ELSE IF out.sig = "none" THEN HTTPException(500, "LLM error: AttributeError")
    ELSE HTTPException(500, "LLM error: APIError")

\* fix_code, lines 125-147
fix_response(out) ==
    IF out.sig = "quota"
        THEN HTTPException(429, "OpenAI quota exceeded-please check your billing plan.")
    ELSE IF out.sig = "error" THEN HTTPException(500, "LLM error: APIError")
    ELSE IF out.sig = "none" THEN HTTPException(500, "LLM error: TypeError")
    ELSE fix_postprocess(out.content)

\* The records logging.exception writes while response r is made: one in
\* the except Exception clause, one more at line 138 for a ValidationError.
logged(r) ==
    IF r.status # 500 THEN 0
    ELSE IF r.detail = "LLM error: 500: AI returned malformed edit data" THEN 2
    ELSE 1

\* FastAPI hands a validated request body to the handler of its route.
Receive(i, bodies) ==
    /\ pc[i] = "idle"
    /\ \E r \in bodies : req' = [req EXCEPT ![i] = r]
    /\ pc' = [pc EXCEPT ![i] = "received"]
    /\ UNCHANGED <<calls, prompt, upstream, resp, log, client>>

\* The handler rejects the language (raise HTTPException(400)) before
\* anything else is done.
Reject(i) ==
    /\ resp' = [resp EXCEPT ![i] =
            HTTPException(400, "Currently only Python is supported")]
    /\ pc' = [pc EXCEPT ![i] = "done"]
    /\ UNCHANGED <<req, calls, prompt, upstream, log, client>>

\* The handler hands prompt p to client.chat.completions.create and blocks.
Create(i, p) ==
    /\ prompt' = [prompt EXCEPT ![i] = p]
    /\ calls' = [calls EXCEPT ![i] = calls[i] + 1]
    /\ pc' = [pc EXCEPT ![i] = "calling"]
    /\ UNCHANGED <<req, upstream, resp, log, client>>

\* The completion came back with out and the handler responds with r.
Respond(i, out, r) ==
    /\ upstream' = [upstream EXCEPT ![i] = out]
    /\ resp' = [resp EXCEPT ![i] = r]
    /\ log' = log + logged(r)
    /\ pc' = [pc EXCEPT ![i] = "done"]
    /\ UNCHANGED <<req, calls, prompt, client>>

\* explain_snippet up to the completion call, lines 65-74
explain_snippet_call(i) ==
    /\ pc[i] = "received" /\ req[i].kind = "explain"
    /\ IF ~supported(req[i].language) THEN Reject(i)
       ELSE Create(i, SYSTEM_PROMPT(req[i].language, req[i].snippet))

\* explain_snippet from the completion's return, lines 75-79
explain_snippet_return(i, outcomes) ==
    /\ pc[i] = "calling" /\ req[i].kind = "explain"
    /\ \E out \in outcomes : Respond(i, out, explain_response(out))

\* generate_code up to the completion call, lines 86-99
generate_code_call(i) ==
    /\ pc[i] = "received" /\ req[i].kind = "generate"
    /\ IF ~supported(req[i].language) THEN Reject(i)
       ELSE Create(i, GeneratePrompt(req[i].instructions))

\* generate_code from the completion's return, lines 100-104
generate_code_return(i, outcomes) ==
    /\ pc[i] = "calling" /\ req[i].kind = "generate"
    /\ \E out \in outcomes : Respond(i, out, generate_response(out))

\* fix_code up to the completion call, lines 111-124
fix_code_call(i) ==
    /\ pc[i] = "received" /\ req[i].kind = "fix"
    /\ IF ~supported(req[i].language) THEN Reject(i)
       ELSE LET error_type == detect_error_type(req[i].error)
            IN  Create(i, generate_error_specific_prompt(error_type, req[i]))

\* A handler that calls the completion again when the call failed.
fix_code_return_retry(i, outcomes) ==
    /\ pc[i] = "calling" /\ req[i].kind = "fix"
    /\ \E out \in outcomes :
        IF out.sig \in {"quota", "error"} /\ calls[i] < 2
        THEN /\ calls' = [calls EXCEPT ![i] = calls[i] + 1]
             /\ UNCHANGED <<req, pc, prompt, upstream, resp, log, client>>
        ELSE Respond(i, out, fix_response(out))

\* fix_code from the completion's return, lines 125-147
fix_code_return(i, outcomes) ==
    /\ pc[i] = "calling" /\ req[i].kind = "fix"
    /\ \E out \in outcomes : Respond(i, out, fix_response(out))

Init ==
    /\ req = [i \in Reqs |-> NoRequest]
    /\ pc = [i \in Reqs |-> "idle"]
    /\ calls = [i \in Reqs |-> 0]
    /\ prompt = [i \in Reqs |-> NoPrompt]
    /\ upstream = [i \in Reqs |-> NoOutcome]
    /\ resp = [i \in Reqs |-> NoResponse]
    /\ log = 0
    /\ client = [api_key |-> "OPENAI_API_KEY"]

---------------------------------------------------------------------------
(* Inputs.                                                                 *)

w_PyThon == <<"P", "y", "T", "h", "o", "n">>
w_java == <<"j", "a", "v", "a">>
w_python3 == <<"p", "y", "t", "h", "o", "n", "3">>
w_IndentationError == <<"I", "n", "d", "e", "n", "t", "a", "t", "i", "o", "n", "E", "r", "r", "o", "r">>
w_SyntaxError == <<"S", "y", "n", "t", "a", "x", "E", "r", "r", "o", "r">>
w_NameError == <<"N", "a", "m", "e", "E", "r", "r", "o", "r">>
w_text == <<" ", "x", " ">>

Languages == {kw_python, w_PyThon, w_java, w_python3}

\* The words error messages are made of: every keyword detect_error_type
\* looks for, the error names in their usual capitals, and other text.
Vocabulary ==
    {w_IndentationError, w_SyntaxError, w_NameError, <<":">>, kw_colon,
     <<"(">>, <<")">>, kw_never_closed, <<"[">>, <<"]">>, <<"{">>, <<"}">>,
     kw_quote, kw_string, <<",">>, w_text}

RECURSIVE Flatten(_)
Flatten(ws) == IF ws = <<>> THEN <<>> ELSE Head(ws) \o Flatten(Tail(ws))

SeqsUpTo(S, n) == UNION {[1..m -> S] : m \in 0..n}

Messages == {Flatten(ws) : ws \in SeqsUpTo(Vocabulary, MaxWords)}

ExplainRequests ==
    {[kind |-> "explain", language |-> l, snippet |-> "x = 1"] : l \in Languages}

GenerateRequests ==
    {[kind |-> "generate", language |-> l, instructions |-> "add two numbers"] :
        l \in Languages}

FixRequests(languages, errors, lines) ==
    {[kind |-> "fix", language |-> l, snippet |-> "if x > 5", error |-> e,
      start_line |-> n, start_char |-> 0, end_line |-> n, end_char |-> 8] :
        l \in languages, e \in errors, n \in lines}

\* json.dumps of a list of values
Dumps(items) ==
    <<"[">> \o [k \in 1..(2 * Len(items) - 1) |->
                    IF k % 2 = 1 THEN items[(k + 1) \div 2] ELSE ","] \o <<"]">>

\* Text around the array: prose and bracketed asides such as "[1]".
Pads == {Flatten(ws) : ws \in SeqsUpTo({<<"x">>, <<"[", "x", "]">>}, MaxPad)}

Replies ==
    {pre \o Dumps(items) \o post :
        pre \in Pads, post \in Pads,
        items \in SeqsUpTo({"E", "N", "C", "M", "Z"}, MaxEdits)}
    \cup SeqsUpTo(Tokens, MaxRaw)

TextReplies == {<<"x">>, <<" ", "x", " ">>}

FewReplies ==
    {<<"[", "E", "]">>, <<"x", "[", "N", ",", "E", "]", "x">>,
     <<"[", "E", ",", "M", "]">>, <<"x">>}

---------------------------------------------------------------------------
(* Specifications.                                                         *)

\* Requests to the three handlers, running concurrently.
Next ==
    \E i \in Reqs :
        \/ Receive(i, ExplainRequests \cup GenerateRequests
                        \cup FixRequests(Languages, {w_SyntaxError \o <<":">>}, {0}))
        \/ explain_snippet_call(i)
        \/ explain_snippet_return(i, Outcomes(TextReplies))
        \/ generate_code_call(i)
        \/ generate_code_return(i, Outcomes(TextReplies))
        \/ fix_code_call(i)
        \/ fix_code_return(i, Outcomes(FewReplies))

Spec == Init /\ [][Next]_vars

\* One /fix request, over every reply of the completion.
NextFix ==
    \/ Receive(1, FixRequests({kw_python, w_java}, {w_IndentationError}, {-1, 0}))
    \/ fix_code_call(1)
    \/ fix_code_return(1, Outcomes(Replies))

SpecFix == Init /\ [][NextFix]_vars

\* One /fix request, over every error message.
NextClassify ==
    \/ Receive(1, FixRequests({kw_python}, Messages, {0}))
    \/ fix_code_call(1)
    \/ fix_code_return(1, Outcomes({<<"[", "E", "]">>}))

SpecClassify == Init /\ [][NextClassify]_vars

---------------------------------------------------------------------------
(* The claims.                                                             *)

Accepted(i) == pc[i] \in {"calling", "done"} /\ calls[i] > 0
Done(i) == pc[i] = "done"
FixReplied(i) == Done(i) /\ req[i].kind = "fix" /\ upstream[i].sig = "ok"

\* C1: in each of the three handlers a request whose lowercased language is
\* not "python" is answered 400 and no completion call is ever made for
\* it; a request whose language is "python" in any letter case is not
\* answered 400.
C1_LanguageGate ==
    \A i \in Reqs : pc[i] # "idle" =>
        IF Lower(req[i].language) # kw_python
        THEN /\ calls[i] = 0
             /\ pc[i] # "calling"
             /\ Done(i) => resp[i].status = 400
        ELSE Done(i) => resp[i].status # 400

C1_Witness ==
    \E i, j \in Reqs :
        /\ Done(i) /\ req[i].language = w_java /\ req[i].kind = "fix"
        /\ resp[i].status = 400 /\ calls[i] = 0
        /\ Done(j) /\ req[j].language = w_PyThon /\ req[j].kind = "explain"
        /\ resp[j].status = 200 /\ calls[j] = 1

\* The elements of the array json.loads returned that Edit(**e) rejects.
BadElements(v) ==
    {k \in 1..Len(v.items) : ~(IsMapping(v.items[k]) /\ EditValid(v.items[k]))}

\* C2: in the fix handler, when the text handed to json.loads is not
\* parseable, or any element of the parsed array fails validation against
\* Edit, whatever its position, the response is a 500 and never a success
\* carrying the elements that did validate.
C2_MalformedReplyFails ==
    \A i \in Reqs : FixReplied(i) =>
        LET v == json_loads(extract_payload(upstream[i].content))
        IN  (~v.ok \/ (v.type = "array" /\ BadElements(v) # {}))
                => resp[i].status = 500

C2_Witness ==
    \E i \in Reqs :
        /\ FixReplied(i)
        /\ upstream[i].content = <<"[", "E", ",", "M", "]">>
        /\ resp[i].status = 500

\* C3: in every handler, a completion call that fails with the quota
\* signal ends the request with 429, and any other failure of the call
\* ends it with 500.
C3_QuotaIs429 ==
    \A i \in Reqs : Done(i) =>
        /\ upstream[i].sig = "quota" => resp[i].status = 429
        /\ upstream[i].sig = "error" => resp[i].status = 500

\* The nine categories in the order of the checks, and the check of each.
Categories ==
    <<"indentation", "missing_colon", "missing_parenthesis", "missing_bracket",
      "missing_brace", "quote_error", "undefined_variable", "missing_comma",
      "general_syntax">>

HasAny(m, words) == \E w \in words : Contains(w, m)

CheckMatches(c, m) ==
    CASE c = "indentation" -> Contains(kw_indentationerror, m)
      [] c = "missing_colon" ->
            Contains(kw_syntaxerror, m) /\ HasAny(m, {<<":">>, kw_colon})
      [] c = "missing_parenthesis" ->
            Contains(kw_syntaxerror, m) /\ HasAny(m, {<<"(">>, <<")">>, kw_never_closed})
      [] c = "missing_bracket" ->
            Contains(kw_syntaxerror, m) /\ HasAny(m, {<<"[">>, <<"]">>})
      [] c = "missing_brace" ->
            Contains(kw_syntaxerror, m) /\ HasAny(m, {<<"{">>, <<"}">>})
      [] c = "quote_error" ->
            Contains(kw_syntaxerror, m) /\ HasAny(m, {kw_quote, kw_string})
      [] c = "undefined_variable" -> Contains(kw_nameerror, m)
      [] c = "missing_comma" -> Contains(kw_syntaxerror, m) /\ Contains(<<",">>, m)
      [] c = "general_syntax" -> FALSE

Matching(m) == {k \in 1..8 : CheckMatches(Categories[k], m)}

\* C4: detect_error_type returns, for every message, the category of the
\* earliest check in the fixed order that matches the lowercased message,
\* and general_syntax exactly when no check matches; the prompt sent is
\* the template of that category.
C4_FirstMatchWins ==
    \A i \in Reqs : (pc[i] # "idle" /\ req[i].kind = "fix") =>
        LET m == Lower(req[i].error)
            got == detect_error_type(req[i].error)
            matching == Matching(m)
        IN  /\ \E k \in 1..9 : got = Categories[k]
            /\ got = "general_syntax" <=> matching = {}
            /\ matching # {} =>
                    /\ \E k \in matching : Categories[k] = got
                    /\ \A k \in matching : Categories[k] = got \/
                            \E j \in 1..(k - 1) : Categories[j] = got
            /\ Accepted(i) => prompt[i].head = TemplateHead(got)

C4_Witness ==
    \E i \in Reqs :
        /\ Accepted(i) /\ req[i].kind = "fix"
        /\ Matching(Lower(req[i].error)) = {4, 5}
        /\ prompt[i].head =
                "You are a Python syntax expert. Fix this missing bracket error."

\* C5: when the fix handler succeeds on an array, the response's edits are
\* as many as the array's elements and the k-th edit is built from the k-th
\* element: nothing is reordered, dropped, merged or deduplicated.
C5_EditsFollowReply ==
    \A i \in Reqs : (FixReplied(i) /\ resp[i].status = 200) =>
        LET v == json_loads(extract_payload(upstream[i].content))
        IN  v.type = "array" =>
                /\ Len(resp[i].edits) = Len(v.items)
                /\ \A k \in 1..Len(v.items) : resp[i].edits[k] = Edit(v.items[k])

C5_Witness ==
    \E i \in Reqs :
        /\ FixReplied(i) /\ resp[i].status = 200
        /\ upstream[i].content = <<"[", "E", ",", "E", "]">>
        /\ Len(resp[i].edits) = 2
        /\ resp[i].edits[1] = resp[i].edits[2]

Positions(r) == {r.start_line, r.start_char, r.end_line, r.end_char}

\* C6: the position fields of every FixRequest the fix handler accepts and
\* of every Edit of every successful FixResponse are >= 0.
C6_PositionsNonNegative ==
    \A i \in Reqs : (Accepted(i) /\ req[i].kind = "fix") =>
        /\ \A n \in Positions(req[i]) : n >= 0
        /\ (Done(i) /\ resp[i].status = 200) =>
                \A k \in 1..Len(resp[i].edits) :
                    \A n \in Positions(resp[i].edits[k]) : n >= 0

\* C7: a request makes at most one completion call, and exactly one once it
\* has passed the language check; after the call failed, or its reply failed
\* parsing or validation, the handler has responded with an error and has
\* made no second call.
C7_OneCallPerRequest ==
    \A i \in Reqs :
        /\ calls[i] <= 1
        /\ pc[i] = "calling" => calls[i] = 1
        /\ (Done(i) /\ supported(req[i].language)) => calls[i] = 1
        /\ (Done(i) /\ calls[i] = 1 /\ resp[i].status # 200) =>
                resp[i].status \in {429, 500}

C7_Witness ==
    \E i, j \in Reqs :
        /\ Done(i) /\ req[i].kind = "fix" /\ upstream[i].sig = "error"
        /\ calls[i] = 1 /\ resp[i].status = 500
        /\ Done(j) /\ req[j].kind = "fix" /\ upstream[j].sig = "ok"
        /\ calls[j] = 1 /\ resp[j].status = 500

IndentationHead == "You are a Python indentation expert. Fix this IndentationError."
BracketHead == "You are a Python syntax expert. Fix this missing bracket error."

\* C8 as stated: a message containing "indentationerror" always selects the
\* indentation template, and one containing "syntaxerror" and "[" or "]"
\* always selects the bracket template.
C8_BracketAlways ==
    \A i \in Reqs : (Accepted(i) /\ req[i].kind = "fix") =>
        LET m == Lower(req[i].error)
        IN  /\ Contains(kw_indentationerror, m) => prompt[i].head = IndentationHead
            /\ (Contains(kw_syntaxerror, m) /\ HasAny(m, {<<"[">>, <<"]">>}))
                    => prompt[i].head = BracketHead

\* C8 amended: a message containing "indentationerror" always selects the
\* indentation template; one containing "syntaxerror" and "[" or "]"
\* selects the bracket template when none of the earlier checks matches
\* (no "indentationerror", no ":" or "colon", no "(", ")" or "never closed").
C8_BracketUnlessEarlier ==
    \A i \in Reqs : (Accepted(i) /\ req[i].kind = "fix") =>
        LET m == Lower(req[i].error)
        IN  /\ Contains(kw_indentationerror, m) => prompt[i].head = IndentationHead
            /\ (/\ Contains(kw_syntaxerror, m) /\ HasAny(m, {<<"[">>, <<"]">>})
                /\ ~Contains(kw_indentationerror, m)
                /\ ~HasAny(m, {<<":">>, kw_colon, <<"(">>, <<")">>, kw_never_closed}))
                    => prompt[i].head = BracketHead

C8_Witness ==
    \E i \in Reqs :
        /\ Accepted(i)
        /\ req[i].error = w_SyntaxError \o <<"]">> \o <<",">>
        /\ prompt[i].head = BracketHead

\* s is a JSON array whose elements are all edits that validate.
IsEditArray(s) ==
    /\ Len(s) >= 2 /\ s[1] = "[" /\ s[Len(s)] = "]"
    /\ Len(s) = 2 \/ Len(s) % 2 = 1
    /\ \A k \in 2..(Len(s) - 1) :
            IF k % 2 = 0 THEN IsMapping(s[k]) /\ EditValid(s[k]) ELSE s[k] = ","

\* The edits of the array raw[a..b].
EditsAt(raw, a, b) == [k \in 1..((b - a) \div 2) |-> Edit(raw[a + 2 * k - 1])]

\* Text that is no JSON: prose, with bracketed asides such as "[1]".
IsProse(t) ==
    \A k \in 1..Len(t) :
        /\ t[k] \in {"x", "[", "]"}
        /\ t[k] = "[" => (k + 2 <= Len(t) /\ t[k + 1] = "x" /\ t[k + 2] = "]")
        /\ t[k] = "]" => (k >= 3 /\ t[k - 2] = "[" /\ t[k - 1] = "x")

\* A reply none of whose "[" comes before a "]".
NoBracketed(raw) ==
    ~\E a, b \in 1..Len(raw) : a < b /\ raw[a] = "[" /\ raw[b] = "]"

\* The whole reply is a JSON value whose iteration yields valid edits only:
\* without brackets, the empty object.
WholeReplyAccepted(raw) ==
    Len(raw) = 1 /\ raw[1] \in ObjectTokens /\ JsonKeys(raw[1]) = {}

\* C9 as stated: a reply made of a valid array of edits with any non-JSON
\* text before and after it succeeds with exactly that array's edits.
C9_ArrayFoundInAnyText ==
    \A i \in Reqs : FixReplied(i) =>
        LET raw == upstream[i].content
        IN  \A a, b \in 1..Len(raw) :
                (/\ a < b /\ IsEditArray(SubSeq(raw, a, b))
                 /\ IsProse(SubSeq(raw, 1, a - 1))
                 /\ IsProse(SubSeq(raw, b + 1, Len(raw))))
                    => resp[i].status = 200 /\ resp[i].edits = EditsAt(raw, a, b)

\* C9 amended: the text handed to json.loads runs from the first "[" of the
\* reply to its last "]"; a reply made of a valid array of edits with text
\* before it that holds no "[" and text after it that holds no "]" succeeds
\* with exactly that array's edits; a reply with no "[" before a "]" is
\* parsed whole.
C9_ArrayFoundBetweenOuterBrackets ==
    \A i \in Reqs : FixReplied(i) =>
        LET raw == upstream[i].content
        IN  /\ \A a, b \in 1..Len(raw) :
                (/\ a < b /\ IsEditArray(SubSeq(raw, a, b))
                 /\ ~Has(SubSeq(raw, 1, a - 1), "[")
                 /\ ~Has(SubSeq(raw, b + 1, Len(raw)), "]"))
                    => resp[i].status = 200 /\ resp[i].edits = EditsAt(raw, a, b)
            /\ NoBracketed(raw) =>
                    IF WholeReplyAccepted(raw)
                    THEN resp[i].status = 200 /\ resp[i].edits = <<>>
                    ELSE resp[i].status = 500

C9_Witness ==
    \E i \in Reqs :
        /\ FixReplied(i)
        /\ upstream[i].content = <<"x", "[", "C", ",", "N", "]", "x">>
        /\ resp[i].status = 200
        /\ Len(resp[i].edits) = 2

\* C10: under every interleaving of the requests, two requests with the
\* same fields whose completion calls came back the same have the same
\* response, and the one object the handlers share, the client, is never
\* written.
C10_Stateless ==
    /\ client = [api_key |-> "OPENAI_API_KEY"]
    /\ \A i, j \in Reqs :
            (Done(i) /\ Done(j) /\ req[i] = req[j] /\ upstream[i] = upstream[j])
                => resp[i] = resp[j]

C10_Witness ==
    \E i, j \in Reqs :
        /\ i # j /\ Done(i) /\ Done(j)
        /\ req[i] = req[j] /\ req[i].kind = "fix"
        /\ upstream[i] = upstream[j] /\ upstream[i].sig = "ok"
        /\ resp[i].status = 200 /\ resp[j] = resp[i]

==========================================================================
